---- MODULE Spec2Model ----
(***************************************************************************)
(* Verification model of stealth-addresses-utils (ERC-5564 stealth         *)
(* addresses): the meta-address codec, the sender-side derivation, the     *)
(* recipient-side key recovery and the announcement scanner.               *)
(*                                                                         *)
(* Text is a sequence of one-character strings, bytes are sequences of     *)
(* 0..255.  The elliptic curve is y^2 = x^3 + 7 as for secp256k1, scaled   *)
(* to the field F_13, where the group has prime order 7; Keccak-256 keeps  *)
(* its 32-byte digest over a 15-bit state.  The widths of the encodings    *)
(* (32-byte scalars, 33-byte compressed points, 67-byte meta-address,      *)
(* 1-byte view tag) are the ones of the source.                            *)
(***************************************************************************)
EXTENDS Integers, Sequences, FiniteSets, TLC

\* ------------------------------------------------------------------------
\* Hex / byte codec (src/lib/utils.ts)
\* ------------------------------------------------------------------------

HexChars == <<"0","1","2","3","4","5","6","7","8","9","a","b","c","d","e","f">>

UpperHexChars == <<"0","1","2","3","4","5","6","7","8","9","A","B","C","D","E","F">>

HexCharSet == {HexChars[i] : i \in 1..16} \cup {UpperHexChars[i] : i \in 1..16}

\* the characters accepted by the class [0-9a-f] under the /i flag
IsHexChar(c) == c \in HexCharSet

\* the value of a hex digit, as parseInt(c, 16)
HexValue ==
  [c \in HexCharSet |->
     (CHOOSE i \in 1..16 : HexChars[i] = c \/ UpperHexChars[i] = c) - 1]

HexVal(c) == HexValue[c]

IsHexText(t) == \A i \in 1..Len(t) : IsHexChar(t[i])

\* String.prototype.slice(from) and slice(from, to) for 0 <= from, to
Slice(t, from, to) == SubSeq(t, from + 1, IF to > Len(t) THEN Len(t) ELSE to)

SliceFrom(t, from) == SubSeq(t, from + 1, Len(t))

StartsWith0x(t) == Len(t) >= 2 /\ t[1] = "0" /\ t[2] = "x"

\* String.prototype.toLowerCase on the hex digits and on the prefix letter
LowerChar(c) ==
  IF c \in HexCharSet THEN HexChars[HexValue[c] + 1]
  ELSE IF c = "X" THEN "x" ELSE c

ToLowerCase(t) == [i \in 1..Len(t) |-> LowerChar(t[i])]

\* String.prototype.padStart(width, "0")
PadStart(t, width) ==
  IF Len(t) >= width THEN t ELSE [i \in 1..(width - Len(t)) |-> "0"] \o t

RECURSIVE NumToHex(_)
\* Number.prototype.toString(16) / BigInt.prototype.toString(16)
NumToHex(v) ==
  IF v < 16 THEN <<HexChars[v + 1]>>
  ELSE NumToHex(v \div 16) \o <<HexChars[(v % 16) + 1]>>

RECURSIVE HexToNum(_)
\* value of a text of hex digits (parseInt(t, 16), BigInt("0x" + t))
HexToNum(t) ==
  IF Len(t) = 0 THEN 0
  ELSE HexToNum(SubSeq(t, 1, Len(t) - 1)) * 16 + HexVal(t[Len(t)])

\* b.toString(16).padStart(2, '0') for every byte b
ByteHex == [b \in 0..255 |-> <<HexChars[(b \div 16) + 1], HexChars[(b % 16) + 1]>>]

bytesToHex(bytes) ==
  <<"0", "x">> \o
  [i \in 1..(2 * Len(bytes)) |->
     IF i % 2 = 1 THEN ByteHex[bytes[(i + 1) \div 2]][1]
     ELSE ByteHex[bytes[i \div 2]][2]]

\* parseInt(pair, 16) stored into a Uint8Array, for a text of two characters
\* over hex digits and letters: the digits up to the first character that
\* is no hex digit, and 0 (from NaN) when there is none; a leading '0x' or
\* '0X' is skipped by parseInt and leaves nothing to read
ParseInt16(c1, c2) ==
  IF c1 \in HexCharSet
  THEN IF c2 \in HexCharSet THEN HexValue[c1] * 16 + HexValue[c2]
       ELSE HexValue[c1]
  ELSE 0

\* a decoder that reads one hex character per byte
hexToBytes_OneDigit(hex) ==
  LET cleanHex == IF StartsWith0x(hex) THEN SliceFrom(hex, 2) ELSE hex
  IN  [i \in 1..(Len(cleanHex) \div 2) |-> HexVal(cleanHex[2 * i - 1])]

\* hexToBytes: the prefix '0x' (in lower case only) is cut, then two
\* characters are read per byte
hexToBytes(hex) ==
  LET cleanHex == IF StartsWith0x(hex) THEN SliceFrom(hex, 2) ELSE hex
  IN  [i \in 1..(Len(cleanHex) \div 2) |->
         ParseInt16(cleanHex[2 * i - 1], cleanHex[2 * i])]

padHex(hex, bytes) ==
  LET cleanHex == IF StartsWith0x(hex) THEN SliceFrom(hex, 2) ELSE hex
  IN  <<"0", "x">> \o PadStart(cleanHex, bytes * 2)

\* ------------------------------------------------------------------------
\* Outcomes of a call: a returned value or a thrown error
\* ------------------------------------------------------------------------

Return(v) == [kind |-> "ok", value |-> v]

Throw(name, detail) == [kind |-> name, value |-> detail]

Returned(o) == o.kind = "ok"

\* ------------------------------------------------------------------------
\* Keccak-256 (viem keccak256), scaled: a 15-bit absorbing state and a
\* 32-byte squeezed digest
\* ------------------------------------------------------------------------

KeccakWidth == 32

RECURSIVE PowMod(_, _, _)
\* base^k modulo m by repeated squaring
PowMod(base, k, m) ==
  IF k = 0 THEN 1 % m
  ELSE LET half == PowMod(base, k \div 2, m)
       IN  IF k % 2 = 0 THEN (half * half) % m
           ELSE (((half * half) % m) * base) % m

\* the powers of the absorbing point for runs of up to 64 bytes
AbsorbPower == [k \in 0..64 |-> PowMod(31, k, 32749)]

RECURSIVE Absorb(_, _, _)
\* the absorbing state after bytes[lo..hi], as a residue modulo 32749 of
\* the polynomial with the coefficients bytes[i] + 1 at the point 31
Absorb(bytes, lo, hi) ==
  IF lo > hi THEN 0
  ELSE IF lo = hi THEN (bytes[lo] + 1) % 32749
  ELSE LET mid == (lo + hi) \div 2
       IN  (Absorb(bytes, lo, mid) * AbsorbPower[hi - mid]
            + Absorb(bytes, mid + 1, hi)) % 32749

\* the i-th byte squeezed from the state s
Squeeze(s, i) == ((s * (73 + 2 * i) + 7 * i * i + 83) % 65537) % 256

\* digest bytes of a byte sequence
Keccak256Bytes(bytes) ==
  LET s == ((Len(bytes) + 7) * AbsorbPower[Len(bytes)]
            + Absorb(bytes, 1, Len(bytes))) % 32749
  IN  [i \in 1..KeccakWidth |-> Squeeze(s, i)]

\* keccak256(bytes): the digest as 0x-prefixed hex text
keccak256(bytes) == bytesToHex(Keccak256Bytes(bytes))

\* ------------------------------------------------------------------------
\* The curve (@noble/secp256k1 as called from src/lib/stealth.ts and
\* src/lib/utils.ts): y^2 = x^3 + 7 over F_P, generator BASE of prime
\* order N
\* ------------------------------------------------------------------------

CurveP == 13

CurveN == 7

CurveB == 7

\* the powers of 16 modulo the curve order, for texts of up to 64 digits
ScalarPower == [k \in 0..64 |-> PowMod(16, k, CurveN)]

RECURSIVE HexModRange(_, _, _)
\* the residue modulo the curve order of the digits t[lo..hi]
HexModRange(t, lo, hi) ==
  IF lo > hi THEN 0
  ELSE IF lo = hi THEN HexVal(t[lo]) % CurveN
  ELSE LET mid == (lo + hi) \div 2
       IN  (HexModRange(t, lo, mid) * ScalarPower[hi - mid]
            + HexModRange(t, mid + 1, hi)) % CurveN

\* BigInt("0x" + t) % secp.CURVE.n
HexMod(t) == HexModRange(t, 1, Len(t))

ZERO == [inf |-> TRUE, x |-> 0, y |-> 0]

Affine(px, py) == [inf |-> FALSE, x |-> px, y |-> py]

BASE == Affine(7, 5)

M(a) == a % CurveP

Inv(a) == CHOOSE z \in 1..(CurveP - 1) : M(a * z) = 1

OnCurve(pt) == ~pt.inf /\ M(pt.y * pt.y) = M(pt.x * pt.x * pt.x + CurveB)

\* ProjectivePoint.add, on affine coordinates
PointAdd(p1, p2) ==
  IF p1.inf THEN p2
  ELSE IF p2.inf THEN p1
  ELSE IF p1.x = p2.x /\ M(p1.y + p2.y) = 0 THEN ZERO
  ELSE LET lam == IF p1 = p2
                  THEN M(3 * p1.x * p1.x * Inv(M(2 * p1.y)))
                  ELSE M((p2.y - p1.y) * Inv(M(p2.x - p1.x)))
           x3  == M(lam * lam - p1.x - p2.x)
       IN  Affine(x3, M(lam * (p1.x - x3) - p1.y))

RECURSIVE DoubleAndAdd(_, _)
DoubleAndAdd(pt, k) ==
  IF k = 0 THEN ZERO
  ELSE LET half == DoubleAndAdd(PointAdd(pt, pt), k \div 2)
       IN  IF k % 2 = 1 THEN PointAdd(pt, half) ELSE half

\* ProjectivePoint.multiply(k): the scalar must satisfy 0 < k < N
multiply(pt, k) ==
  IF 0 < k /\ k < CurveN THEN Return(DoubleAndAdd(pt, k))
  ELSE Throw("Error", "invalid scalar")

\* n2h: a field element as 64 hex characters
FieldHex(v) == PadStart(NumToHex(v), 64)

\* ProjectivePoint.toHex / toRawBytes(isCompressed), as hex text without
\* prefix; the zero point has affine coordinates (0, 0)
PointHex(pt, isCompressed) ==
  IF isCompressed
  THEN (IF pt.y % 2 = 0 THEN <<"0", "2">> ELSE <<"0", "3">>) \o FieldHex(pt.x)
  ELSE <<"0", "4">> \o FieldHex(pt.x) \o FieldHex(pt.y)

toRawBytes(pt, isCompressed) == hexToBytes(PointHex(pt, isCompressed))

\* a hex text of 64 digits whose value is below bound: all digits but the
\* last six are 0 and the last six are a number below bound
HexBelow(t, bound) ==
  /\ \A i \in 1..(Len(t) - 6) : t[i] = "0"
  /\ HexToNum(SubSeq(t, Len(t) - 5, Len(t))) < bound

\* ProjectivePoint.fromHex(hex): a 33-byte compressed or a 65-byte
\* uncompressed encoding of a point of the curve
fromHex(hex) ==
  IF ~IsHexText(hex) \/ Len(hex) % 2 = 1 THEN Throw("Error", "hex invalid")
  ELSE IF Len(hex) = 66 /\ hex[1] = "0" /\ hex[2] \in {"2", "3"}
  THEN LET xt == SubSeq(hex, 3, 66)
       IN  IF ~HexBelow(xt, CurveP) \/ HexToNum(SubSeq(xt, 59, 64)) = 0
           THEN Throw("Error", "Point invalid: x")
           ELSE LET px   == HexToNum(SubSeq(xt, 59, 64))
                    rhs  == M(px * px * px + CurveB)
                    odd  == hex[2] = "3"
                    ys   == {py \in 0..(CurveP - 1) :
                               M(py * py) = rhs /\ (py % 2 = 1) = odd}
                IN  IF ys = {} THEN Throw("Error", "Point is not on curve")
                    ELSE Return(Affine(px, CHOOSE py \in ys : TRUE))
  ELSE IF Len(hex) = 130 /\ hex[1] = "0" /\ hex[2] = "4"
  THEN LET xt == SubSeq(hex, 3, 66)
           yt == SubSeq(hex, 67, 130)
       IN  IF HexBelow(xt, CurveP) /\ HexBelow(yt, CurveP)
              /\ OnCurve(Affine(HexToNum(SubSeq(xt, 59, 64)),
                                HexToNum(SubSeq(yt, 59, 64))))
           THEN Return(Affine(HexToNum(SubSeq(xt, 59, 64)),
                              HexToNum(SubSeq(yt, 59, 64))))
           ELSE Throw("Error", "Point is not on curve")
  ELSE Throw("Error", "Point is not on curve")

\* toPriv: a private key given as 64 hex digits, in the range 0 < d < N
toPriv(hex) ==
  IF ~IsHexText(hex) \/ Len(hex) # 64 THEN Throw("Error", "hex invalid")
  ELSE IF HexBelow(hex, CurveN) /\ HexToNum(SubSeq(hex, 59, 64)) > 0
  THEN Return(HexToNum(SubSeq(hex, 59, 64)))
  ELSE Throw("Error", "private key out of range")

\* secp.getPublicKey(privKey, isCompressed), as hex text without prefix
getPublicKey(privHex, isCompressed) ==
  LET d == toPriv(privHex)
  IN  IF ~Returned(d) THEN d
      ELSE Return(PointHex(DoubleAndAdd(BASE, d.value), isCompressed))

\* BigInt(text) of a 0x-prefixed hex text: the value when it is below 2^24,
\* and its residue modulo the curve order; any other text is a SyntaxError
\* (the empty text is 0n)
BigIntOf(text) ==
  IF Len(text) = 0 THEN Return([small |-> TRUE, val |-> 0, modN |-> 0])
  ELSE IF StartsWith0x(text) /\ Len(text) > 2 /\ IsHexText(SliceFrom(text, 2))
  THEN LET digits == SliceFrom(text, 2)
           low    == IF Len(digits) > 6
                     THEN SubSeq(digits, Len(digits) - 5, Len(digits))
                     ELSE digits
           isLow  == \A i \in 1..(Len(digits) - 6) : digits[i] = "0"
       IN  Return([small |-> isLow,
                   val   |-> IF isLow THEN HexToNum(low) ELSE 0,
                   modN  |-> HexMod(digits)])
  ELSE Throw("SyntaxError", "Cannot convert to a BigInt")

\* ------------------------------------------------------------------------
\* Errors (src/lib/errors.ts)
\* ------------------------------------------------------------------------

ViewTagMismatchError(expectedTag, actualTag) ==
  Throw("ViewTagMismatchError",
        [expectedTag |-> expectedTag, actualTag |-> actualTag])

UnsupportedSchemeError(scheme) ==
  Throw("UnsupportedSchemeError", [scheme |-> scheme])

InvalidMetaAddressError == Throw("InvalidMetaAddressError", "invalid format")

\* ------------------------------------------------------------------------
\* Meta-address codec (src/lib/metaAddress.ts)
\* ------------------------------------------------------------------------

SCHEME_ID == 2

\* /^0x[0-9a-f]{134}$/i
MetaAddressPattern(raw) ==
  /\ Len(raw) = 136
  /\ raw[1] = "0"
  /\ raw[2] \in {"x", "X"}
  /\ \A i \in 3..136 : IsHexChar(raw[i])

\* an encoder that keeps the prefix of the keys
encodeMetaAddress_KeepPrefix(ma) ==
  IF ma.scheme # 2 THEN Throw("Error", "unsupported scheme")
  ELSE Return(<<"0", "x">> \o PadStart(NumToHex(ma.scheme), 2)
                \o ma.spendPubkey \o ma.viewPubkey)

encodeMetaAddress(ma) ==
  IF ma.scheme # 2 THEN Throw("Error", "unsupported scheme")
  ELSE Return(<<"0", "x">> \o PadStart(NumToHex(ma.scheme), 2)
                \o SliceFrom(ma.spendPubkey, 2)
                \o SliceFrom(ma.viewPubkey, 2))

\* a parser that cuts the spend key one byte short
parseMetaAddress_ShortSpendKey(raw) ==
  IF ~MetaAddressPattern(raw) THEN Throw("Error", "invalid length")
  ELSE Return([scheme      |-> HexToNum(Slice(raw, 2, 4)),
               spendPubkey |-> <<"0", "x">> \o Slice(raw, 4, 4 + 64),
               viewPubkey  |-> <<"0", "x">> \o SliceFrom(raw, 4 + 66)])

\* a parser that enforces the scheme as the encoder does
parseMetaAddress_CheckedScheme(raw) ==
  IF ~MetaAddressPattern(raw) THEN Throw("Error", "invalid length")
  ELSE IF HexToNum(Slice(raw, 2, 4)) # 2
  THEN UnsupportedSchemeError(HexToNum(Slice(raw, 2, 4)))
  ELSE Return([scheme      |-> HexToNum(Slice(raw, 2, 4)),
               spendPubkey |-> <<"0", "x">> \o Slice(raw, 4, 4 + 66),
               viewPubkey  |-> <<"0", "x">> \o SliceFrom(raw, 4 + 66)])

parseMetaAddress(raw) ==
  IF ~MetaAddressPattern(raw) THEN Throw("Error", "invalid length")
  ELSE Return([scheme      |-> HexToNum(Slice(raw, 2, 4)),
               spendPubkey |-> <<"0", "x">> \o Slice(raw, 4, 4 + 66),
               viewPubkey  |-> <<"0", "x">> \o SliceFrom(raw, 4 + 66)])

\* a validator without the i flag on the prefix
isValidMetaAddress_LowerPrefix(value) ==
  /\ Len(value) = 2 + 134
  /\ value[1] = "0"
  /\ value[2] = "x"
  /\ IsHexText(SliceFrom(value, 2))

\* isValidMetaAddress (src/lib/utils.ts): /^0x[0-9a-f]{134}$/i.test(value)
isValidMetaAddress(value) ==
  /\ Len(value) = 2 + 134
  /\ LowerChar(value[1]) = "0"
  /\ LowerChar(value[2]) = "x"
  /\ IsHexText(SliceFrom(value, 2))

\* ------------------------------------------------------------------------
\* Stealth derivation engine (src/lib/stealth.ts)
\* ------------------------------------------------------------------------

\* preimage.set(sharedSecret, 0) and preimage.set(viewTag, 32) stay inside
\* the 33 bytes of the preimage; otherwise set throws a RangeError
preimageFits(sharedSecret, viewTag) ==
  /\ Len(sharedSecret) <= 33
  /\ 32 + Len(viewTag) <= 33

\* new Uint8Array(33) with sharedSecret set at offset 0 and viewTag at
\* offset 32
preimageOf(sharedSecret, viewTag) ==
  [i \in 1..33 |->
     IF i <= 32
     THEN (IF i <= Len(sharedSecret) THEN sharedSecret[i] ELSE 0)
     ELSE (IF Len(viewTag) >= 1 THEN viewTag[1] ELSE 0)]

hashSharedSecret(sharedSecret, viewTag) == keccak256(preimageOf(sharedSecret, viewTag))

\* viem getAddress: the EIP-55 checksum spelling of a 20-byte address
getAddress(address) ==
  LET lower  == ToLowerCase(SliceFrom(address, 2))
      ascii  == [i \in 1..Len(lower) |->
                   IF HexVal(lower[i]) < 10 THEN 48 + HexVal(lower[i])
                   ELSE 87 + HexVal(lower[i])]
      digest == SliceFrom(keccak256(ascii), 2)
  IN  <<"0", "x">> \o
      [i \in 1..Len(lower) |->
         IF HexVal(digest[i]) >= 8 THEN UpperHexChars[HexVal(lower[i]) + 1]
         ELSE lower[i]]

\* getAddress(`0x${keccak256(pub.slice(1)).slice(-40)}`) for the bytes of
\* an uncompressed public key
addressOfPublicKey(uncompressed) ==
  LET digest == keccak256(Tail(uncompressed))
  IN  getAddress(<<"0", "x">> \o SubSeq(digest, Len(digest) - 39, Len(digest)))

\* a shared secret without the leading zero bytes of the x-coordinate
sharedSecretOf_Trimmed(point) == hexToBytes(PadStart(NumToHex(point.x), 2))

\* a shared secret that keeps the parity byte of the compressed point
sharedSecretOf_WithPrefix(point) == toRawBytes(point, TRUE)

\* the 32 bytes of a shared point: compressed encoding without its prefix
sharedSecretOf(point) == Tail(toRawBytes(point, TRUE))

\* a view tag cut from the second byte of the hash
viewTagOf_SecondByte(sharedSecret) ==
  <<"0", "x">> \o Slice(keccak256(sharedSecret), 4, 6)

\* `0x${keccak256(sharedSecret).slice(2, 4)}`
viewTagOf(sharedSecret) == <<"0", "x">> \o Slice(keccak256(sharedSecret), 2, 4)

\* hashSharedSecret(sharedSecret, viewTagBytes) % secp.CURVE.n
tweakOf(sharedSecret, viewTagBytes) ==
  HexMod(SliceFrom(hashSharedSecret(sharedSecret, viewTagBytes), 2))

\* a derivation that forgets the spend key
stealthPubPointOf_TweakOnly(spendPubPoint, tweakPoint) == tweakPoint

\* stealthPub = spendPub + H * G
stealthPubPointOf(spendPubPoint, tweakPoint) == PointAdd(spendPubPoint, tweakPoint)

\* a recovery that subtracts where it should add
stealthPrivOf_Difference(spendPriv, H) == (spendPriv + CurveN - H) % CurveN

\* a recovery that multiplies where it should add
stealthPrivOf_Product(spendPriv, H) == (spendPriv * H) % CurveN

\* stealthPriv = (spendPriv + H) % n
stealthPrivOf(spendPriv, H) == (spendPriv + H) % CurveN

\* a recovery that compares the tags case by case
viewTagMismatch_CaseSensitive(expectedTag, viewTag) == expectedTag # viewTag

\* a recovery that compares the expected tag with itself
viewTagMismatch_SelfCompare(expectedTag, viewTag) ==
  ToLowerCase(expectedTag) # ToLowerCase(expectedTag)

\* expectedTag.toLowerCase() !== input.viewTag.toLowerCase()
viewTagMismatch(expectedTag, viewTag) ==
  ToLowerCase(expectedTag) # ToLowerCase(viewTag)

\* the body of getSenderStealthAddress after the ephemeral key is drawn:
\* ephemPriv is the scalar of secp.utils.randomPrivateKey(), in 1..N-1
getSenderStealthAddress(metaAddr, ephemPriv) ==
  LET ma == parseMetaAddress(metaAddr)
  IN  IF ~Returned(ma) THEN ma
      ELSE
      LET ephemPrivKey == padHex(<<"0", "x">> \o FieldHex(ephemPriv), 32)
          ephemPubKey  == <<"0", "x">> \o
                          PointHex(DoubleAndAdd(BASE, ephemPriv), TRUE)
          viewPubPoint == fromHex(SliceFrom(ma.value.viewPubkey, 2))
          sharedPoint  == IF Returned(viewPubPoint)
                          THEN multiply(viewPubPoint.value, ephemPriv)
                          ELSE viewPubPoint
      IN  IF ~Returned(sharedPoint) THEN sharedPoint
          ELSE
          LET sharedSecret  == sharedSecretOf(sharedPoint.value)
              viewTag       == viewTagOf(sharedSecret)
              viewTagBytes  == hexToBytes(viewTag)
              H             == tweakOf(sharedSecret, viewTagBytes)
              tweakPoint    == multiply(BASE, H)
              spendPubPoint == fromHex(SliceFrom(ma.value.spendPubkey, 2))
          IN  IF ~preimageFits(sharedSecret, viewTagBytes)
              THEN Throw("RangeError", "offset is out of bounds")
              ELSE IF ~Returned(tweakPoint) THEN tweakPoint
              ELSE IF ~Returned(spendPubPoint) THEN spendPubPoint
              ELSE
              LET stealthPubPoint == stealthPubPointOf(spendPubPoint.value,
                                                       tweakPoint.value)
              IN  Return([stealthAddress |-> addressOfPublicKey(
                                               toRawBytes(stealthPubPoint, FALSE)),
                          stealthPubKey  |-> bytesToHex(
                                               toRawBytes(stealthPubPoint, TRUE)),
                          viewTag        |-> viewTag,
                          ephemPrivKey   |-> ephemPrivKey,
                          ephemPubKey    |-> ephemPubKey])

recoverStealthPrivKey(input) ==
  LET viewPriv  == BigIntOf(input.viewPrivKey)
      spendPriv == BigIntOf(input.spendPrivKey)
  IN  IF ~Returned(viewPriv) THEN viewPriv
      ELSE IF ~Returned(spendPriv) THEN spendPriv
      ELSE
      LET ephemPubPoint == fromHex(SliceFrom(input.ephemPubKey, 2))
          sharedPoint   ==
            IF ~Returned(ephemPubPoint) THEN ephemPubPoint
            ELSE IF viewPriv.value.small
            THEN multiply(ephemPubPoint.value, viewPriv.value.val)
            ELSE Throw("Error", "invalid scalar")
      IN  IF ~Returned(sharedPoint) THEN sharedPoint
          ELSE
          LET sharedSecret == sharedSecretOf(sharedPoint.value)
              expectedTag  == viewTagOf(sharedSecret)
          IN  IF viewTagMismatch(expectedTag, input.viewTag)
              THEN ViewTagMismatchError(expectedTag, input.viewTag)
              ELSE
              LET viewTagBytes   == hexToBytes(input.viewTag)
                  H              == tweakOf(sharedSecret, viewTagBytes)
                  stealthPriv    == stealthPrivOf(spendPriv.value.modN, H)
                  stealthPrivKey == padHex(<<"0", "x">> \o NumToHex(stealthPriv),
                                           32)
                  stealthPub     == getPublicKey(SliceFrom(stealthPrivKey, 2),
                                                 FALSE)
              IN  IF ~preimageFits(sharedSecret, viewTagBytes)
                  THEN Throw("RangeError", "offset is out of bounds")
                  ELSE IF ~Returned(stealthPub) THEN stealthPub
                  ELSE Return([stealthPrivKey |-> stealthPrivKey,
                               stealthAddress |-> addressOfPublicKey(
                                                    hexToBytes(stealthPub.value))])

\* ------------------------------------------------------------------------
\* Key generation (src/lib/utils.ts)
\* ------------------------------------------------------------------------

\* the scalars secp.utils.randomPrivateKey() can return
PrivateScalars == 1..(CurveN - 1)

\* generateKeyPair() when the random private key is the scalar d
generateKeyPair(d) ==
  [privateKey |-> bytesToHex(hexToBytes(FieldHex(d))),
   publicKey  |-> bytesToHex(toRawBytes(DoubleAndAdd(BASE, d), TRUE))]

generateStealthKeyPairs(spendD, viewD) ==
  [spend |-> generateKeyPair(spendD), view |-> generateKeyPair(viewD)]

\* the scalar of a private key text produced by generateKeyPair
ScalarOfKey(privateKey) == HexToNum(SubSeq(privateKey, 61, 66))

\* ------------------------------------------------------------------------
\* Announcement payload and scanner (announcerPayload, src/lib/scan.ts)
\* ------------------------------------------------------------------------

\* an encoder that does not pad the view tag
encodeMetadataWithViewTag_Unpadded(viewTag, additionalData) ==
  <<"0", "x">> \o SliceFrom(viewTag, 2) \o SliceFrom(additionalData, 2)

\* encodeMetadataWithViewTag(viewTag, additionalData)
encodeMetadataWithViewTag(viewTag, additionalData) ==
  <<"0", "x">> \o PadStart(SliceFrom(viewTag, 2), 2) \o SliceFrom(additionalData, 2)

\* an optional text field of a log: undefined or a text
Undefined == [def |-> FALSE, text |-> <<>>]

Defined(t) == [def |-> TRUE, text |-> t]

\* a value is truthy when it is defined and not the empty text
Truthy(field) == field.def /\ field.text # <<>>

Continue == [kind |-> "continue"]

\* a scanner that reads the tag from the prefix of the metadata
viewTagOfMetadata_Prefix(metadata) ==
  IF Truthy(metadata) THEN <<"0", "x">> \o Slice(metadata.text, 0, 2)
  ELSE <<"0", "x", "0", "0">>

\* metadata ? `0x${metadata.slice(2, 4)}` : '0x00'
viewTagOfMetadata(metadata) ==
  IF Truthy(metadata) THEN <<"0", "x">> \o Slice(metadata.text, 2, 4)
  ELSE <<"0", "x", "0", "0">>

\* a scanner that clears the metadata of the record it reports
matchOf_ClearedLog(log, result) ==
  IF ~Returned(result) THEN result
  ELSE Return([log            |-> [log EXCEPT !.metadata = Undefined],
               stealthAddress |-> result.value.stealthAddress,
               stealthPrivKey |-> result.value.stealthPrivKey])

\* matches.push({log, stealthAddress, stealthPrivKey}) is reached when the
\* recovery returned: the match of the log, or the error of the recovery
matchOf(log, result) ==
  IF ~Returned(result) THEN result
  ELSE Return([log            |-> log,
               stealthAddress |-> result.value.stealthAddress,
               stealthPrivKey |-> result.value.stealthPrivKey])

\* the body of the try block for one log
tryBody(log, config) ==
  IF log.isNull THEN Throw("TypeError", "Cannot read properties of null")
  ELSE
  LET ephemPubKey == IF log.hasArgs THEN log.ephemeralPubKey ELSE Undefined
      metadata    == IF log.hasArgs THEN log.metadata ELSE Undefined
  IN  IF ~Truthy(ephemPubKey) THEN Continue
      ELSE
      matchOf(log, recoverStealthPrivKey(
                     [viewPrivKey  |-> config.viewPrivKey,
                      spendPrivKey |-> config.spendPrivKey,
                      ephemPubKey  |-> ephemPubKey.text,
                      viewTag      |-> viewTagOfMetadata(metadata)]))

\* a catch clause that lets through everything but the view tag mismatch
swallowed_OnlyMismatch(error) == error.kind = "ViewTagMismatchError"

\* catch (error) { ... }: every error is swallowed
swallowed(error) == TRUE

\* matches = [match]
pushMatch_KeepLast(matches, match) == <<match>>

\* matches.unshift(match)
pushMatch_Front(matches, match) == <<match>> \o matches

\* matches.push(match)
pushMatch(matches, match) == Append(matches, match)

\* one iteration of the for loop over the outcome so far: the matches after
\* the log, or the error that left the loop
iteration(before, step) ==
  IF ~Returned(before) THEN before
  ELSE IF Returned(step) THEN Return(pushMatch(before.value, step.value))
  ELSE IF step = Continue \/ swallowed(step) THEN before
  ELSE step

\* for (const log of logs) { try { ... } catch { ... } }; return matches
scanAnnouncements(logList, config) ==
  LET after[i \in 0..Len(logList)] ==
        IF i = 0 THEN Return(<<>>)
        ELSE iteration(after[i - 1], tryBody(logList[i], config))
  IN  after[Len(logList)]

\* ------------------------------------------------------------------------
\* State
\* ------------------------------------------------------------------------

VARIABLES
  recipient,     \* the recipient's StealthKeyPairs, once generated
  metaAddress,   \* outcome of encodeMetaAddress for the recipient
  ephemeral,     \* the ephemeral scalar drawn by getSenderStealthAddress
  sender,        \* outcome of getSenderStealthAddress(metaAddress)
  recoveryInput, \* the KeyRecoveryInput of the last recoverStealthPrivKey
  recovery,      \* outcome of the last recoverStealthPrivKey
  encodeInput,   \* the MetaAddress last passed to encodeMetaAddress
  encoded,       \* its outcome
  parseInput,    \* the text last passed to parseMetaAddress
  parsed,        \* its outcome
  scanner,       \* the StealthKeyPairs of the recipient who scans
  logs,          \* the announcement logs collected so far
  scanConfig,    \* the ScanConfig of the last scanAnnouncements
  scan,          \* its outcome
  published,     \* the meta-address text a sender was handed
  ephemeral2,    \* the ephemeral scalar drawn by a second call on that text
  sender2,       \* outcome of the second getSenderStealthAddress(published)
  payloadInput,  \* the arguments of the last encodeMetadataWithViewTag
  payload,       \* its outcome
  bytesInput,    \* the bytes last passed to bytesToHex
  bytesHex,      \* its outcome
  scans          \* the calls of scanAnnouncements that are under way

stealthVars == <<recipient, metaAddress, ephemeral, sender, recoveryInput, recovery>>

codecVars == <<encodeInput, encoded, parseInput, parsed>>

scanVars == <<scanner, logs, scanConfig, scan>>

reuseVars == <<published, ephemeral2, sender2>>

utilVars == <<payloadInput, payload, bytesInput, bytesHex>>

concurrentVars == <<scans>>

vars == <<stealthVars, codecVars, scanVars, reuseVars, utilVars, concurrentVars>>

None == [kind |-> "none"]

Init ==
  /\ recipient = None
  /\ metaAddress = None
  /\ ephemeral = None
  /\ sender = None
  /\ recoveryInput = None
  /\ recovery = None
  /\ encodeInput = None
  /\ encoded = None
  /\ parseInput = None
  /\ parsed = None
  /\ scanner = None
  /\ logs = <<>>
  /\ scanConfig = None
  /\ scan = None
  /\ published = None
  /\ ephemeral2 = None
  /\ sender2 = None
  /\ payloadInput = None
  /\ payload = None
  /\ bytesInput = None
  /\ bytesHex = None
  /\ scans = None

\* const { spend, view } = generateStealthKeyPairs()
GenerateKeys ==
  /\ recipient = None
  /\ \E spendD \in PrivateScalars, viewD \in PrivateScalars :
       recipient' = Return(generateStealthKeyPairs(spendD, viewD))
  /\ UNCHANGED <<metaAddress, ephemeral, sender, recoveryInput, recovery>>
  /\ UNCHANGED <<codecVars, scanVars, reuseVars, utilVars, concurrentVars>>

\* encodeMetaAddress({scheme: 0x02, spendPubkey: spend.publicKey, ...})
EncodeRecipient ==
  /\ Returned(recipient)
  /\ metaAddress = None
  /\ metaAddress' = encodeMetaAddress(
                      [scheme      |-> SCHEME_ID,
                       spendPubkey |-> recipient.value.spend.publicKey,
                       viewPubkey  |-> recipient.value.view.publicKey])
  /\ UNCHANGED <<recipient, ephemeral, sender, recoveryInput, recovery>>
  /\ UNCHANGED <<codecVars, scanVars, reuseVars, utilVars, concurrentVars>>

\* getSenderStealthAddress(metaAddress), drawing the ephemeral key
Derive ==
  /\ Returned(metaAddress)
  /\ sender = None
  /\ \E ephemPriv \in PrivateScalars :
       /\ ephemeral' = Return(ephemPriv)
       /\ sender' = getSenderStealthAddress(metaAddress.value, ephemPriv)
  /\ UNCHANGED <<recipient, metaAddress, recoveryInput, recovery>>
  /\ UNCHANGED <<codecVars, scanVars, reuseVars, utilVars, concurrentVars>>

\* recoverStealthPrivKey with the keys of some recipient (the addressed one
\* or another) and the sender's ephemPubKey and viewTag
Recover ==
  /\ Returned(sender)
  /\ recovery = None
  /\ \E spendD \in PrivateScalars, viewD \in PrivateScalars :
       LET who   == generateStealthKeyPairs(spendD, viewD)
           input == [viewPrivKey  |-> who.view.privateKey,
                     spendPrivKey |-> who.spend.privateKey,
                     ephemPubKey  |-> sender.value.ephemPubKey,
                     viewTag      |-> sender.value.viewTag]
       IN  /\ recoveryInput' = Return(input)
           /\ recovery' = recoverStealthPrivKey(input)
  /\ UNCHANGED <<recipient, metaAddress, ephemeral, sender>>
  /\ UNCHANGED <<codecVars, scanVars, reuseVars, utilVars, concurrentVars>>

Next == GenerateKeys \/ EncodeRecipient \/ Derive \/ Recover

Spec == Init /\ [][Next]_vars

\* ------------------------------------------------------------------------
\* The meta-address codec on its own
\* ------------------------------------------------------------------------

\* scheme values passed to encodeMetaAddress
EncodeSchemes == {0, 1, 2, 3, 255}

ToUpperCase(t) ==
  [i \in 1..Len(t) |->
     IF t[i] \in HexCharSet THEN UpperHexChars[HexVal(t[i]) + 1] ELSE t[i]]

\* 33-byte hex public keys: the compressed keys of the curve, one of them
\* in upper case, and an x-coordinate that is not on the curve
PubkeyTexts ==
  {generateKeyPair(d).publicKey : d \in PrivateScalars}
    \cup {<<"0", "x">> \o ToUpperCase(SliceFrom(generateKeyPair(3).publicKey, 2))}
    \cup {<<"0", "x", "0", "2">> \o FieldHex(1)}

Repeat(t, count) == [i \in 1..(count * Len(t)) |-> t[((i - 1) % Len(t)) + 1]]

\* the 132 hex characters of two public keys
BodyTexts ==
  {SliceFrom(generateKeyPair(1).publicKey, 2) \o SliceFrom(generateKeyPair(2).publicKey, 2),
   ToUpperCase(SliceFrom(generateKeyPair(5).publicKey, 2)
                 \o SliceFrom(generateKeyPair(4).publicKey, 2))}

\* '0x' + 134 hex characters, for every scheme byte in either case
WellFormedTexts ==
  {<<"0", "x">> \o ByteHex[b] \o body : b \in 0..255, body \in BodyTexts}
    \cup {<<"0", "x">> \o ToUpperCase(ByteHex[b]) \o body :
            b \in 0..255, body \in BodyTexts}

\* texts that are not '0x' + 134 hex characters
MalformedTexts ==
  {<<"0", "x", "1", "2", "3", "4">>,
   <<"0", "x">> \o Repeat(<<"0", "0">>, 70),
   <<"0", "x">> \o Repeat(<<"g", "g">>, 67),
   <<"0", "2">> \o Repeat(<<"0", "0">>, 66),
   <<>>,
   <<"0", "x">> \o Repeat(<<"0">>, 133),
   <<"0", "x">> \o Repeat(<<"0">>, 135),
   <<"0", "x", "0", "2">> \o Repeat(<<"a", "b">>, 65) \o <<"a", "z">>,
   <<"x", "0", "0", "2">> \o Repeat(<<"0">>, 132),
   <<"0", "x", "0", "x">> \o Repeat(<<"0">>, 132)}

\* 134 hex characters behind an upper-case prefix '0X'
UpperPrefixTexts == {<<"0", "X">> \o ByteHex[2] \o body : body \in BodyTexts}

\* key texts that are not 33 bytes: two bytes, no byte, 34 bytes
OddLengthKeyTexts ==
  {<<"0", "x", "1", "2", "3", "4">>,
   <<"0", "x">>,
   generateKeyPair(1).publicKey \o <<"0", "0">>}

\* encodeMetaAddress(ma) for a scheme and two public keys
Encode ==
  /\ encodeInput = None
  /\ parseInput = None
  /\ \E scheme \in EncodeSchemes,
        spendPub \in PubkeyTexts \cup OddLengthKeyTexts,
        viewPub \in PubkeyTexts \cup OddLengthKeyTexts :
       LET ma == [scheme |-> scheme, spendPubkey |-> spendPub, viewPubkey |-> viewPub]
       IN  /\ encodeInput' = Return(ma)
           /\ encoded' = encodeMetaAddress(ma)
  /\ UNCHANGED <<parseInput, parsed>>
  /\ UNCHANGED <<stealthVars, scanVars, reuseVars, utilVars, concurrentVars>>

\* parseMetaAddress(encodeMetaAddress(ma))
ParseEncoded ==
  /\ Returned(encoded)
  /\ parseInput = None
  /\ parseInput' = Return(encoded.value)
  /\ parsed' = parseMetaAddress(encoded.value)
  /\ UNCHANGED <<encodeInput, encoded>>
  /\ UNCHANGED <<stealthVars, scanVars, reuseVars, utilVars, concurrentVars>>

\* parseMetaAddress(raw) for a text from anywhere
ParseRaw ==
  /\ encodeInput = None
  /\ parseInput = None
  /\ \E raw \in WellFormedTexts \cup MalformedTexts \cup UpperPrefixTexts :
       /\ parseInput' = Return(raw)
       /\ parsed' = parseMetaAddress(raw)
  /\ UNCHANGED <<encodeInput, encoded>>
  /\ UNCHANGED <<stealthVars, scanVars, reuseVars, utilVars, concurrentVars>>

NextCodec == Encode \/ ParseEncoded \/ ParseRaw

SpecCodec == Init /\ [][NextCodec]_vars


\* ------------------------------------------------------------------------
\* The scanner over a list of announcements
\* ------------------------------------------------------------------------

\* the longest list of logs that is scanned
MaxLogs == 2

\* the private scalars drawn for the scanning recipient and the ephemeral
\* scalars drawn for the announcements it scans
ScanScalars == {1, 2}

\* recipients other than the one with the scalars (spendD, viewD): one with
\* another view key and one with another spend key
OtherRecipients(spendD, viewD) ==
  {<<spendD, (viewD % (CurveN - 1)) + 1>>,
   <<(spendD % (CurveN - 1)) + 1, viewD>>}

\* the log of the announcement of a derivation
AnnouncementLog(result, index, origin) ==
  [isNull          |-> FALSE,
   hasArgs         |-> TRUE,
   ephemeralPubKey |-> Defined(result.ephemPubKey),
   metadata        |-> Defined(encodeMetadataWithViewTag(result.viewTag,
                                                         <<"0", "x">>)),
   stealthAddress  |-> result.stealthAddress,
   logIndex        |-> index,
   origin          |-> origin,
   stealthPubKey   |-> result.stealthPubKey]

MalformedKinds ==
  {"null", "noArgs", "notHex", "offCurve", "noMetadata", "emptyMetadata"}

\* records that no derivation produced
MalformedLog(kind, index) ==
  [isNull          |-> kind = "null",
   hasArgs         |-> kind \notin {"null", "noArgs"},
   ephemeralPubKey |->
     IF kind = "notHex" THEN Defined(<<"0", "x", "z", "z">>)
     ELSE IF kind = "offCurve" THEN Defined(<<"0", "x", "0", "2">> \o FieldHex(1))
     ELSE IF kind \in {"noMetadata", "emptyMetadata"}
     THEN Defined(generateKeyPair(1).publicKey)
     ELSE Undefined,
   metadata        |-> IF kind = "emptyMetadata" THEN Defined(<<"0", "x">>)
                       ELSE Undefined,
   stealthAddress  |-> <<>>,
   logIndex        |-> index,
   origin          |-> "malformed",
   stealthPubKey   |-> <<>>]

MetaAddressOf(keys) ==
  encodeMetaAddress([scheme      |-> SCHEME_ID,
                     spendPubkey |-> keys.spend.publicKey,
                     viewPubkey  |-> keys.view.publicKey]).value

\* the recipient who scans generates its keys
GenerateScanner ==
  /\ scanner = None
  /\ \E spendD \in ScanScalars, viewD \in ScanScalars :
       scanner' = Return(generateStealthKeyPairs(spendD, viewD))
  /\ UNCHANGED <<logs, scanConfig, scan>>
  /\ UNCHANGED <<stealthVars, codecVars, reuseVars, utilVars, concurrentVars>>

\* the log of the announcement of a derivation that returned is appended
Announce(result, origin) ==
  /\ Returned(result)
  /\ logs' = Append(logs, AnnouncementLog(result.value, Len(logs) + 1, origin))

\* a sender derives a stealth address for the scanning recipient and
\* announces it
AnnounceOwn ==
  /\ Returned(scanner)
  /\ scan = None
  /\ Len(logs) < MaxLogs
  /\ \E ephemPriv \in ScanScalars :
       Announce(getSenderStealthAddress(MetaAddressOf(scanner.value), ephemPriv),
                "own")
  /\ UNCHANGED <<scanner, scanConfig, scan>>
  /\ UNCHANGED <<stealthVars, codecVars, reuseVars, utilVars, concurrentVars>>

\* a sender derives a stealth address for another recipient and announces it
AnnounceOther ==
  /\ Returned(scanner)
  /\ scan = None
  /\ Len(logs) < MaxLogs
  /\ \E ephemPriv \in ScanScalars,
        other \in OtherRecipients(ScalarOfKey(scanner.value.spend.privateKey),
                                  ScalarOfKey(scanner.value.view.privateKey)) :
       Announce(getSenderStealthAddress(
                  MetaAddressOf(generateStealthKeyPairs(other[1], other[2])),
                  ephemPriv),
                "other")
  /\ UNCHANGED <<scanner, scanConfig, scan>>
  /\ UNCHANGED <<stealthVars, codecVars, reuseVars, utilVars, concurrentVars>>

\* the log source delivers a record that is no announcement of a derivation
AppendMalformed ==
  /\ Returned(scanner)
  /\ scan = None
  /\ Len(logs) < MaxLogs
  /\ \E kind \in MalformedKinds :
       logs' = Append(logs, MalformedLog(kind, Len(logs) + 1))
  /\ UNCHANGED <<scanner, scanConfig, scan>>
  /\ UNCHANGED <<stealthVars, codecVars, reuseVars, utilVars, concurrentVars>>

\* the configs a caller may pass: the scanner's keys, or a view key that is
\* zero, out of range or not hex
ScanConfigs(keys) ==
  {[viewPrivKey |-> keys.view.privateKey, spendPrivKey |-> keys.spend.privateKey],
   [viewPrivKey |-> <<"0", "x">> \o FieldHex(0), spendPrivKey |-> keys.spend.privateKey],
   [viewPrivKey |-> <<"0", "x">> \o FieldHex(CurveN), spendPrivKey |-> keys.spend.privateKey],
   [viewPrivKey |-> <<"0", "x", "z", "z">>, spendPrivKey |-> keys.spend.privateKey]}

\* scanAnnouncements(logs, config)
Scan ==
  /\ Returned(scanner)
  /\ scan = None
  /\ \E config \in ScanConfigs(scanner.value) :
       /\ scanConfig' = Return(config)
       /\ scan' = scanAnnouncements(logs, config)
  /\ UNCHANGED <<scanner, logs>>
  /\ UNCHANGED <<stealthVars, codecVars, reuseVars, utilVars, concurrentVars>>

NextScan == GenerateScanner \/ AnnounceOwn \/ AnnounceOther \/ AppendMalformed \/ Scan

SpecScan == Init /\ [][NextScan]_vars

\* ------------------------------------------------------------------------
\* The sender on a meta-address text from anywhere, called twice
\* ------------------------------------------------------------------------

\* the 132 hex characters of the recipient's two public keys
KeyBody(keys) ==
  SliceFrom(keys.spend.publicKey, 2) \o SliceFrom(keys.view.publicKey, 2)

\* '0x' + scheme byte + both keys of the recipient, for several scheme bytes
SchemeTexts(keys) ==
  {<<"0", "x">> \o ByteHex[b] \o KeyBody(keys) : b \in EncodeSchemes}

\* texts with the recipient's keys that are not '0x' + 134 hex characters:
\* one character short, without prefix, with a character that is no hex
\* digit, and the empty text
BrokenTexts(keys) ==
  {<<"0", "x">> \o ByteHex[2] \o SubSeq(KeyBody(keys), 1, 131),
   ByteHex[2] \o KeyBody(keys),
   <<"0", "x">> \o ByteHex[2] \o SubSeq(KeyBody(keys), 1, 131) \o <<"z">>,
   <<>>}

\* the sender is handed a meta-address text for the recipient
Publish ==
  /\ Returned(recipient)
  /\ published = None
  /\ \E raw \in SchemeTexts(recipient.value) \cup BrokenTexts(recipient.value) :
       published' = Return(raw)
  /\ UNCHANGED <<stealthVars, codecVars, scanVars, utilVars, concurrentVars>>
  /\ UNCHANGED <<ephemeral2, sender2>>

\* getSenderStealthAddress(published), drawing the ephemeral key
DeriveFrom ==
  /\ Returned(published)
  /\ sender = None
  /\ \E ephemPriv \in PrivateScalars :
       /\ ephemeral' = Return(ephemPriv)
       /\ sender' = getSenderStealthAddress(published.value, ephemPriv)
  /\ UNCHANGED <<recipient, metaAddress, recoveryInput, recovery>>
  /\ UNCHANGED <<codecVars, scanVars, reuseVars, utilVars, concurrentVars>>

\* a second getSenderStealthAddress(published), with its own draw
DeriveAgain ==
  /\ sender # None
  /\ sender2 = None
  /\ \E ephemPriv \in PrivateScalars :
       /\ ephemeral2' = Return(ephemPriv)
       /\ sender2' = getSenderStealthAddress(published.value, ephemPriv)
  /\ UNCHANGED <<stealthVars, codecVars, scanVars, utilVars, concurrentVars>>
  /\ UNCHANGED published

NextSender == GenerateKeys \/ Publish \/ DeriveFrom \/ DeriveAgain

SpecSender == Init /\ [][NextSender]_vars

\* ------------------------------------------------------------------------
\* The recovery on keys, points and tags from anywhere
\* ------------------------------------------------------------------------

\* a 32-byte hex text of the number v
KeyText(v) == <<"0", "x">> \o FieldHex(v)

\* 32 bytes 0xff: a number far above the curve order
AllOnesKey == <<"0", "x">> \o Repeat(<<"f">>, 64)

\* view private keys: scalars of the curve, zero, the curve order, a number
\* above it, and a text that is no number
ViewKeyTexts ==
  {KeyText(v) : v \in {1, 2, 6, 0, CurveN}} \cup {AllOnesKey, <<"0", "x", "z", "z">>}

\* spend private keys, likewise
SpendKeyTexts ==
  {KeyText(v) : v \in {1, 3, 0, CurveN, CurveN + 3}}
    \cup {AllOnesKey, <<"0", "x", "z", "z">>}

\* ephemeral public keys: points of the curve, an x-coordinate that is not
\* on the curve, the encoding of the zero point, and a text that is too short
EphemPubKeyTexts ==
  {generateKeyPair(e).publicKey : e \in {1, 2, 5}}
    \cup {<<"0", "x", "0", "2">> \o FieldHex(1),
          <<"0", "x", "0", "2">> \o FieldHex(0),
          <<"0", "x", "1", "2", "3", "4">>}

\* 1-byte view tags: the tags the shared secrets of the curve hash to, one
\* of them in upper case behind '0x' and behind '0X', and a tag no shared
\* secret hashes to
ViewTagTexts ==
  {viewTagOf(sharedSecretOf(DoubleAndAdd(BASE, k))) : k \in {1, 2, 3}}
    \cup {ToUpperCase(viewTagOf(sharedSecretOf(DoubleAndAdd(BASE, 2)))),
          <<"0", "X">> \o ToUpperCase(
            SliceFrom(viewTagOf(sharedSecretOf(DoubleAndAdd(BASE, 2))), 2)),
          <<"0", "x", "f", "f">>}

\* recoverStealthPrivKey(input) for an input from anywhere
RecoverRaw ==
  /\ recovery = None
  /\ \E viewKey \in ViewKeyTexts, spendKey \in SpendKeyTexts,
        ephemPub \in EphemPubKeyTexts, tag \in ViewTagTexts :
       LET input == [viewPrivKey  |-> viewKey,
                     spendPrivKey |-> spendKey,
                     ephemPubKey  |-> ephemPub,
                     viewTag      |-> tag]
       IN  /\ recoveryInput' = Return(input)
           /\ recovery' = recoverStealthPrivKey(input)
  /\ UNCHANGED <<recipient, metaAddress, ephemeral, sender>>
  /\ UNCHANGED <<codecVars, scanVars, reuseVars, utilVars, concurrentVars>>

NextRecover == RecoverRaw

SpecRecover == Init /\ [][NextRecover]_vars

\* ------------------------------------------------------------------------
\* The metadata encoder and the hex/byte codec on their own
\* ------------------------------------------------------------------------

\* 1-byte view tags as text: two hex digits in lower and in upper case, and
\* a single hex digit
MetadataTagTexts ==
  {<<"0", "x">> \o ByteHex[b] : b \in 0..255}
    \cup {<<"0", "x">> \o ToUpperCase(ByteHex[b]) : b \in 0..255}
    \cup {<<"0", "x", HexChars[i]>> : i \in 1..16}

\* additional data: none (the default '0x'), one zero byte, several bytes,
\* bytes in upper case
AdditionalDataTexts ==
  {<<"0", "x">>,
   <<"0", "x", "0", "0">>,
   <<"0", "x", "d", "e", "a", "d", "b", "e", "e", "f">>,
   <<"0", "x", "A", "B", "0", "1">>}

\* encodeMetadataWithViewTag(viewTag, additionalData)
EncodeMetadata ==
  /\ payloadInput = None
  /\ bytesInput = None
  /\ \E tag \in MetadataTagTexts, data \in AdditionalDataTexts :
       /\ payloadInput' = Return([viewTag |-> tag, additionalData |-> data])
       /\ payload' = Return(encodeMetadataWithViewTag(tag, data))
  /\ UNCHANGED <<bytesInput, bytesHex>>
  /\ UNCHANGED <<stealthVars, codecVars, scanVars, reuseVars, concurrentVars>>

\* the longest byte sequence that is encoded
MaxBytes == 3

\* byte values at the ends of both hex digits
ByteValues == {0, 1, 15, 16, 255}

\* the byte sequences of at most MaxBytes bytes
ByteSequences ==
  UNION {[1..len -> ByteValues] : len \in 0..MaxBytes}

\* bytesToHex(bytes)
EncodeBytes ==
  /\ payloadInput = None
  /\ bytesInput = None
  /\ \E bytes \in ByteSequences :
       /\ bytesInput' = Return(bytes)
       /\ bytesHex' = Return(bytesToHex(bytes))
  /\ UNCHANGED <<payloadInput, payload>>
  /\ UNCHANGED <<stealthVars, codecVars, scanVars, reuseVars, concurrentVars>>

NextUtil == EncodeMetadata \/ EncodeBytes

SpecUtil == Init /\ [][NextUtil]_vars

\* ------------------------------------------------------------------------
\* Properties of derivation and recovery
\* ------------------------------------------------------------------------

\* the last recovery used the keys of the addressed recipient
MatchingRecovery ==
  /\ recovery # None
  /\ recoveryInput.value.viewPrivKey = recipient.value.view.privateKey
  /\ recoveryInput.value.spendPrivKey = recipient.value.spend.privateKey

\* the last recovery used the keys of another recipient
WrongRecipientRecovery ==
  /\ recovery # None
  /\ \/ recoveryInput.value.viewPrivKey # recipient.value.view.privateKey
     \/ recoveryInput.value.spendPrivKey # recipient.value.spend.privateKey

\* the tweak scalar H of the derivation in progress, from the recipient's
\* view key and the ephemeral scalar
DerivationTweak ==
  LET secret == sharedSecretOf(
                  DoubleAndAdd(BASE, (ScalarOfKey(recipient.value.view.privateKey)
                                      * ephemeral.value) % CurveN))
  IN  HexMod(SliceFrom(keccak256(secret \o <<Keccak256Bytes(secret)[1]>>), 2))

\* the sender's stealth public key encodes a point of the curve, not the
\* point at infinity
StealthPubKeyIsPoint ==
  sender.value.stealthPubKey # <<"0", "x">> \o PointHex(ZERO, TRUE)

\* C1 as stated: for every spend and view key pair and every ephemeral
\* scalar, derivation and matching recovery both return and the recovered
\* stealthAddress equals the sender's stealthAddress.
C1_AgreementForEveryKey ==
  /\ sender # None => Returned(sender)
  /\ MatchingRecovery =>
       /\ Returned(recovery)
       /\ recovery.value.stealthAddress = sender.value.stealthAddress

\* C1 amended: when the tweak H is not 0 modulo n the derivation returns,
\* and when moreover (spendPriv + H) mod n is not 0, so that the stealth
\* public key is not the point at infinity, the matching recovery returns
\* and the recovered stealthAddress equals the sender's stealthAddress.
C1_Agreement ==
  /\ (sender # None /\ DerivationTweak # 0) => Returned(sender)
  /\ (MatchingRecovery /\ StealthPubKeyIsPoint) =>
       /\ Returned(recovery)
       /\ recovery.value.stealthAddress = sender.value.stealthAddress

C1_Witness ==
  /\ MatchingRecovery
  /\ StealthPubKeyIsPoint
  /\ Returned(recovery)
  /\ recovery.value.stealthAddress = sender.value.stealthAddress

\* C2: whenever recovery with the addressed recipient's keys returns, the
\* recovered stealthPrivKey times G is the sender's stealthPubKey.
C2_RecoveredKeyControlsStealthPubKey ==
  (MatchingRecovery /\ Returned(recovery)) =>
    getPublicKey(SliceFrom(recovery.value.stealthPrivKey, 2), TRUE)
      = Return(SliceFrom(sender.value.stealthPubKey, 2))

C2_Witness ==
  /\ MatchingRecovery
  /\ Returned(recovery)
  /\ recovery.value.stealthPrivKey # recipient.value.spend.privateKey
  /\ getPublicKey(SliceFrom(recovery.value.stealthPrivKey, 2), TRUE).kind = "ok"

\* the first byte of keccak256 of the shared secret that the keys of the
\* last recovery give with the sender's ephemeral public key
RecoveryTagByte ==
  LET point == fromHex(SliceFrom(recoveryInput.value.ephemPubKey, 2)).value
      viewD == ScalarOfKey(recoveryInput.value.viewPrivKey)
  IN  Keccak256Bytes(Tail(toRawBytes(DoubleAndAdd(point, viewD), TRUE)))[1]

SenderTagByte == hexToBytes(sender.value.viewTag)[1]

IsMetaAddressText(t) ==
  /\ Len(t) = 2 + 134
  /\ SubSeq(t, 1, 2) = <<"0", "x">>
  /\ \A i \in 3..Len(t) : t[i] \in HexCharSet

\* a 0x-prefixed hex text of any number
IsNumberText(t) == StartsWith0x(t) /\ Len(t) > 2 /\ IsHexText(SliceFrom(t, 2))

\* both public keys passed to encodeMetaAddress are '0x' + 66 hex characters
KeysAre33Bytes ==
  /\ Len(encodeInput.value.spendPubkey) = 2 + 66
  /\ Len(encodeInput.value.viewPubkey) = 2 + 66
  /\ IsNumberText(encodeInput.value.spendPubkey)
  /\ IsNumberText(encodeInput.value.viewPubkey)

\* C7: for every m with scheme 2 and 33-byte hex public keys,
\* parseMetaAddress(encodeMetaAddress(m)) returns scheme 2 and the two
\* public keys of m, compared without regard to case.
C7_MetaAddressRoundTrip ==
  (Returned(encodeInput) /\ encodeInput.value.scheme = 2 /\ KeysAre33Bytes) =>
    /\ Returned(encoded)
    /\ parsed # None =>
         /\ Returned(parsed)
         /\ parsed.value.scheme = 2
         /\ ToLowerCase(parsed.value.spendPubkey)
              = ToLowerCase(encodeInput.value.spendPubkey)
         /\ ToLowerCase(parsed.value.viewPubkey)
              = ToLowerCase(encodeInput.value.viewPubkey)

C7_Witness ==
  /\ Returned(encodeInput)
  /\ Returned(parsed)
  /\ parseInput = encoded
  /\ parsed.value.spendPubkey # parsed.value.viewPubkey

\* C8: encodeMetaAddress with a scheme other than 2 fails with an
\* UnsupportedSchemeError whose scheme field is the offending value.
C8_SchemeRejection ==
  (Returned(encodeInput) /\ encodeInput.value.scheme # 2) =>
    encoded = UnsupportedSchemeError(encodeInput.value.scheme)

\* C9: parseMetaAddress fails with InvalidMetaAddressError for every input
\* that is not '0x' followed by 134 hexadecimal characters and succeeds for
\* every input that is.
C9_FormatRejection ==
  Returned(parseInput) =>
    IF IsMetaAddressText(parseInput.value)
    THEN Returned(parsed)
    ELSE parsed.kind = "InvalidMetaAddressError"

OwnConfigScan ==
  /\ scan # None
  /\ scanConfig.value.viewPrivKey = scanner.value.view.privateKey
  /\ scanConfig.value.spendPrivKey = scanner.value.spend.privateKey

\* every record was produced by a derivation, for the scanner or for others
OnlyAnnouncements == \A j \in 1..Len(logs) : logs[j].origin \in {"own", "other"}

OwnRecords == {j \in 1..Len(logs) : logs[j].origin = "own"}

OtherRecords == {j \in 1..Len(logs) : logs[j].origin = "other"}

\* the matches of the last scan whose log is the j-th record
MatchesOf(j) == {i \in 1..Len(scan.value) : scan.value[i].log = logs[j]}

\* the address that a private key text derives
AddressOfPrivateKey(privateKey) ==
  addressOfPublicKey(hexToBytes(getPublicKey(SliceFrom(privateKey, 2), FALSE).value))

\* the match of an addressed record carries the address of its derivation
\* and a private key that derives it
RightMatch(j) ==
  /\ Cardinality(MatchesOf(j)) = 1
  /\ \A i \in MatchesOf(j) :
       /\ scan.value[i].stealthAddress = logs[j].stealthAddress
       /\ AddressOfPrivateKey(scan.value[i].stealthPrivKey) = logs[j].stealthAddress

\* the derivation of the j-th record produced the point at infinity
DegenerateRecord(j) == logs[j].stealthPubKey = <<"0", "x">> \o PointHex(ZERO, TRUE)

\* the shared secret of the scanner's view key with the j-th record
ScannerSecret(j) ==
  sharedSecretOf(DoubleAndAdd(fromHex(SliceFrom(logs[j].ephemeralPubKey.text, 2)).value,
                              ScalarOfKey(scanner.value.view.privateKey)))

\* the first byte of its hash is the view tag of the j-th record
TagAgrees(j) ==
  Keccak256Bytes(ScannerSecret(j))[1] = hexToBytes(logs[j].metadata.text)[1]

\* the stealth private key the scanner computes for the j-th record is 0
ZeroKeyFor(j) ==
  LET secret == ScannerSecret(j)
      H      == HexMod(SliceFrom(keccak256(secret \o <<Keccak256Bytes(secret)[1]>>), 2))
  IN  (ScalarOfKey(scanner.value.spend.privateKey) + H) % CurveN = 0

PositionOf(match) == CHOOSE j \in 1..Len(logs) : logs[j] = match.log

\* C5: the result of a scan is an order-preserving subsequence of the
\* input: every match's log is an input record, no record is matched twice,
\* and matches come in the order of their records.
C5_OrderPreservingSubsequence ==
  Returned(scan) =>
    /\ \A i \in 1..Len(scan.value) : \E j \in 1..Len(logs) : logs[j] = scan.value[i].log
    /\ \A j \in 1..Len(logs) : Cardinality(MatchesOf(j)) <= 1
    /\ \A i1, i2 \in 1..Len(scan.value) :
         i1 < i2 => PositionOf(scan.value[i1]) < PositionOf(scan.value[i2])

C5_Witness ==
  /\ Returned(scan)
  /\ Len(scan.value) >= 2
  /\ PositionOf(scan.value[1]) < PositionOf(scan.value[2])

\* the recovery that the j-th record is put to under the last config, or
\* the error of reading the record
RecordRecovery(j) ==
  IF logs[j].isNull \/ ~logs[j].hasArgs \/ ~Truthy(logs[j].ephemeralPubKey)
  THEN Throw("Skipped", "no ephemeral public key")
  ELSE recoverStealthPrivKey(
         [viewPrivKey  |-> scanConfig.value.viewPrivKey,
          spendPrivKey |-> scanConfig.value.spendPrivKey,
          ephemPubKey  |-> logs[j].ephemeralPubKey.text,
          viewTag      |-> IF Truthy(logs[j].metadata)
                           THEN <<"0", "x">> \o
                                  SubSeq(logs[j].metadata.text, 3,
                                         IF Len(logs[j].metadata.text) >= 4 THEN 4
                                         ELSE Len(logs[j].metadata.text))
                           ELSE <<"0", "x", "0", "0">>])

\* C6: the scanner never raises; a record whose recovery fails, with
\* ViewTagMismatchError or any other error, contributes nothing and does
\* not keep later records from being processed.
C6_ScannerNeverRaises ==
  scan # None =>
    /\ Returned(scan)
    /\ \A j \in 1..Len(logs) :
         IF Returned(RecordRecovery(j))
         THEN MatchesOf(j) # {}
         ELSE MatchesOf(j) = {}

C6_Witness ==
  /\ Returned(scan)
  /\ \E j1, j2 \in 1..Len(logs) :
       /\ j1 < j2
       /\ RecordRecovery(j1).kind \notin {"ok", "ViewTagMismatchError"}
       /\ MatchesOf(j2) # {}

\* ------------------------------------------------------------------------
\* Properties of the sender on a meta-address text
\* ------------------------------------------------------------------------

\* the sender was called on '0x' + 134 hex characters
PublishedWellFormed ==
  /\ sender # None
  /\ MetaAddressPattern(published.value)

\* the scheme byte of the published text
PublishedScheme == HexToNum(Slice(published.value, 2, 4))

\* C11: getSenderStealthAddress accepts only a meta-address that starts
\* with scheme ID 0x02: called on a well-formed 134-hex-character text
\* whose scheme byte is not 0x02, it does not return a stealth address.
C11_OnlyScheme2Derives ==
  (PublishedWellFormed /\ PublishedScheme # SCHEME_ID) => ~Returned(sender)

\* ------------------------------------------------------------------------
\* Properties of the recovery on inputs from anywhere
\* ------------------------------------------------------------------------

\* a 0x-prefixed 32-byte hex text of a scalar in [1, n-1]
IsScalarText(t) == StartsWith0x(t) /\ Returned(toPriv(SliceFrom(t, 2)))

\* a 0x-prefixed encoding of a point of the curve
IsPointText(t) == StartsWith0x(t) /\ Returned(fromHex(SliceFrom(t, 2)))

\* the recovery was called with a view key and an ephemeral public key that
\* have a shared secret, and a spend key that is a number
SharedSecretDefined ==
  /\ recovery # None
  /\ IsScalarText(recoveryInput.value.viewPrivKey)
  /\ IsNumberText(recoveryInput.value.spendPrivKey)
  /\ IsPointText(recoveryInput.value.ephemPubKey)

\* the first byte of Hash(s), s the x-coordinate of viewPriv * ephemPub
ComputedTagByte ==
  LET point == fromHex(SliceFrom(recoveryInput.value.ephemPubKey, 2)).value
      d     == toPriv(SliceFrom(recoveryInput.value.viewPrivKey, 2)).value
  IN  Keccak256Bytes(Tail(toRawBytes(DoubleAndAdd(point, d), TRUE)))[1]

\* the byte of the supplied view tag
SuppliedTagByte == HexToNum(SliceFrom(recoveryInput.value.viewTag, 2))

\* C12: recoverStealthPrivKey fails with ViewTagMismatchError exactly when
\* the first byte of Hash(s) differs from the supplied viewTag; the error
\* carries expectedTag = the computed byte and actualTag = the supplied
\* tag, and no stealthAddress or stealthPrivKey is produced.
C12_ViewTagMismatchExactly ==
  SharedSecretDefined =>
    /\ (recovery.kind = "ViewTagMismatchError") <=> (ComputedTagByte # SuppliedTagByte)
    /\ (ComputedTagByte # SuppliedTagByte) =>
         recovery = Throw("ViewTagMismatchError",
                          [expectedTag |-> <<"0", "x">> \o ByteHex[ComputedTagByte],
                           actualTag   |-> recoveryInput.value.viewTag])

\* a recovery with a defined shared secret and a supplied tag of another
\* byte has failed with ViewTagMismatchError
C12_Witness ==
  /\ SharedSecretDefined
  /\ ComputedTagByte # SuppliedTagByte
  /\ recovery.kind = "ViewTagMismatchError"

\* both calls of the sender on the published text have returned
BothDerived ==
  /\ sender # None
  /\ sender2 # None
  /\ Returned(sender)
  /\ Returned(sender2)

C14_MalformedTextRaisesInvalidMetaAddress ==
  (sender # None /\ ~MetaAddressPattern(published.value)) =>
    /\ sender = parseMetaAddress(published.value)
    /\ sender.kind = "InvalidMetaAddressError"

\* the shared secret of the first call, from the recipient's view private
\* key and the ephemeral scalar
RecipientSecret ==
  Tail(toRawBytes(
         DoubleAndAdd(BASE, (ScalarOfKey(recipient.value.view.privateKey)
                             * ephemeral.value) % CurveN), TRUE))

\* the stealth point of the first call, from the recipient's spend private
\* key: (spendPriv + H) * G, the zero point when the sum is 0 modulo n
RecipientStealthPoint ==
  DoubleAndAdd(BASE, (ScalarOfKey(recipient.value.spend.privateKey)
                      + DerivationTweak) % CurveN)

\* C15: every result of getSenderStealthAddress is internally consistent:
\* ephemPrivKey is a scalar in [1, n-1], ephemPubKey = ephemPrivKey * G,
\* viewTag is the first byte of Hash(x-coordinate of ephemPrivKey * viewPub),
\* stealthPubKey = spendPub + (Hash(s || viewTag) mod n) * G, and
\* stealthAddress is the address derived from stealthPubKey.
C15_SenderResultConsistent ==
  (sender # None /\ Returned(sender)) =>
    /\ IsScalarText(sender.value.ephemPrivKey)
    /\ ScalarOfKey(sender.value.ephemPrivKey) = ephemeral.value
    /\ getPublicKey(SliceFrom(sender.value.ephemPrivKey, 2), TRUE)
         = Return(SliceFrom(sender.value.ephemPubKey, 2))
    /\ sender.value.viewTag
         = <<"0", "x">> \o ByteHex[Keccak256Bytes(RecipientSecret)[1]]
    /\ sender.value.stealthPubKey
         = <<"0", "x">> \o PointHex(RecipientStealthPoint, TRUE)
    /\ sender.value.stealthAddress
         = addressOfPublicKey(toRawBytes(RecipientStealthPoint, FALSE))

\* a derivation has returned a result whose stealth public key is a point
\* of the curve
C15_Witness ==
  /\ sender # None
  /\ Returned(sender)
  /\ StealthPubKeyIsPoint
  /\ Len(sender.value.stealthAddress) = 42

\* ------------------------------------------------------------------------
\* Properties of the matches of the scanner
\* ------------------------------------------------------------------------

\* C16: every ScanMatch returned by scanAnnouncements carries the stealth
\* address of its announcement: match.stealthAddress equals the
\* stealthAddress announced in match.log, for every match and every list.
C16_MatchCarriesAnnouncedAddress ==
  (scan # None /\ Returned(scan)) =>
    \A i \in 1..Len(scan.value) :
      scan.value[i].stealthAddress = scan.value[i].log.stealthAddress

\* ------------------------------------------------------------------------
\* Properties of the encoder's output
\* ------------------------------------------------------------------------

\* the text is '0x' followed by 134 hex characters, the first two being 02
Is67BytesOfScheme2(t) ==
  /\ Len(t) = 2 + 2 * 67
  /\ SubSeq(t, 1, 4) = <<"0", "x", "0", "2">>
  /\ \A i \in 5..Len(t) : t[i] \in HexCharSet

\* C17 as stated: whenever encodeMetaAddress returns, its output is exactly
\* 67 bytes, '0x' followed by 134 hex characters whose first byte is 02,
\* which isValidMetaAddress accepts.
C17_EncodedIs67Bytes ==
  (Returned(encodeInput) /\ Returned(encoded)) =>
    /\ Is67BytesOfScheme2(encoded.value)
    /\ isValidMetaAddress(encoded.value)

\* C17, amended: whenever encodeMetaAddress returns for two public keys
\* that are each '0x' followed by 66 hex characters, its output is exactly
\* 67 bytes, '0x' followed by 134 hex characters whose first byte is 02,
\* which isValidMetaAddress accepts.
C17_EncodedIs67BytesFor33ByteKeys ==
  (Returned(encodeInput) /\ Returned(encoded) /\ KeysAre33Bytes) =>
    /\ Is67BytesOfScheme2(encoded.value)
    /\ isValidMetaAddress(encoded.value)

\* the encoder has returned for two 33-byte keys, one in upper case
C17_Witness ==
  /\ Returned(encodeInput)
  /\ Returned(encoded)
  /\ KeysAre33Bytes
  /\ encodeInput.value.spendPubkey # ToLowerCase(encodeInput.value.spendPubkey)
  /\ isValidMetaAddress(encoded.value)

\* ------------------------------------------------------------------------
\* Properties of the metadata encoder and of the hex/byte codec
\* ------------------------------------------------------------------------

\* the view tag the scanner reads from a record with the encoded metadata
ExtractedTag == viewTagOfMetadata(Defined(payload.value))

\* C18: for every 1-byte view tag t and every additional data d,
\* encodeMetadataWithViewTag(t, d) is t, left-padded to two hex digits,
\* followed by d verbatim, and the view tag the scanner extracts from a
\* record with that metadata is t.
C18_MetadataViewTagRoundTrip ==
  payload # None =>
    LET t == payloadInput.value.viewTag
        d == payloadInput.value.additionalData
    IN  /\ Len(payload.value) = 4 + (Len(d) - 2)
        /\ SubSeq(payload.value, 1, 2) = <<"0", "x">>
        /\ HexToNum(SubSeq(payload.value, 3, 4)) = HexToNum(SliceFrom(t, 2))
        /\ Len(t) = 4 => SubSeq(payload.value, 3, 4) = SliceFrom(t, 2)
        /\ SubSeq(payload.value, 5, Len(payload.value)) = SliceFrom(d, 2)
        /\ Len(ExtractedTag) = 4
        /\ HexToNum(SliceFrom(ExtractedTag, 2)) = HexToNum(SliceFrom(t, 2))
        /\ Len(t) = 4 => ExtractedTag = t

\* a one-digit view tag was encoded in front of additional data
C18_Witness ==
  /\ payload # None
  /\ Len(payloadInput.value.viewTag) = 3
  /\ Len(payloadInput.value.additionalData) > 2
  /\ HexToNum(SliceFrom(ExtractedTag, 2)) = HexToNum(SliceFrom(payloadInput.value.viewTag, 2))

\* C19: for every byte sequence b, leading 0x00 bytes and the empty
\* sequence included, hexToBytes(bytesToHex(b)) equals b, and hexToBytes
\* gives the same bytes with or without the '0x' prefix.
C19_HexByteRoundTrip ==
  bytesHex # None =>
    /\ hexToBytes(bytesHex.value) = bytesInput.value
    /\ hexToBytes(SliceFrom(bytesHex.value, 2)) = hexToBytes(bytesHex.value)
    /\ hexToBytes(ToUpperCase(SliceFrom(bytesHex.value, 2))) = bytesInput.value

\* a sequence with a leading 0x00 byte was encoded and decodes to itself
C19_Witness ==
  /\ bytesHex # None
  /\ Len(bytesInput.value) >= 2
  /\ bytesInput.value[1] = 0
  /\ bytesInput.value[2] > 15
  /\ hexToBytes(bytesHex.value) = bytesInput.value

\* C20: recoverStealthPrivKey raises an error, and returns no result,
\* whenever viewPrivKey or spendPrivKey is not a scalar in [1, n-1] or
\* ephemPubKey does not decode to a valid curve point.
C20_InvalidKeysRejected ==
  (/\ recovery # None
   /\ \/ ~IsScalarText(recoveryInput.value.viewPrivKey)
      \/ ~IsScalarText(recoveryInput.value.spendPrivKey)
      \/ ~IsPointText(recoveryInput.value.ephemPubKey))
    => ~Returned(recovery)

\* ------------------------------------------------------------------------
\* Properties of the recovered key
\* ------------------------------------------------------------------------

\* the tweak scalar H of the last recovery: Hash(s || viewTag) mod n, from
\* the x-coordinate of viewPriv * ephemPub and the byte of the supplied tag
RecoveryTweak ==
  LET point  == fromHex(SliceFrom(recoveryInput.value.ephemPubKey, 2)).value
      d      == toPriv(SliceFrom(recoveryInput.value.viewPrivKey, 2)).value
      secret == Tail(toRawBytes(DoubleAndAdd(point, d), TRUE))
  IN  HexMod(SliceFrom(keccak256(secret \o <<SuppliedTagByte>>), 2))

\* the spend private key of the last recovery, as a number modulo n
SpendResidue == HexMod(SliceFrom(recoveryInput.value.spendPrivKey, 2))

\* C21: whenever recoverStealthPrivKey returns, stealthPrivKey is the
\* scalar (spendPriv + (Hash(s || viewTag) mod n)) mod n, it lies in
\* [1, n-1], and it is encoded as '0x' plus exactly 64 hex digits with
\* leading zeros kept.
C21_RecoveredKeyIsTweakedSpendKey ==
  (recovery # None /\ Returned(recovery)) =>
    LET key == recovery.value.stealthPrivKey
    IN  /\ Len(key) = 2 + 64
        /\ SubSeq(key, 1, 2) = <<"0", "x">>
        /\ IsHexText(SliceFrom(key, 2))
        /\ HexBelow(SliceFrom(key, 2), CurveN)
        /\ HexToNum(SubSeq(key, 61, 66)) \in 1..(CurveN - 1)
        /\ HexToNum(SubSeq(key, 61, 66)) = (SpendResidue + RecoveryTweak) % CurveN

\* a recovery has returned a key where the sum spendPriv + H wrapped
\* around the curve order
C21_Witness ==
  /\ recovery # None
  /\ Returned(recovery)
  /\ IsScalarText(recoveryInput.value.spendPrivKey)
  /\ SpendResidue + RecoveryTweak > CurveN
  /\ HexToNum(SubSeq(recovery.value.stealthPrivKey, 61, 66)) < SpendResidue

\* the recovery input of the last call with another view tag text
WithViewTag(tag) == [recoveryInput.value EXCEPT !.viewTag = tag]

\* C22: the view-tag comparison is case-insensitive: if
\* recoverStealthPrivKey succeeds for a view tag text, it succeeds with the
\* identical stealthAddress and stealthPrivKey for every text that differs
\* from it only in letter case ('0xab', '0xAB', '0XAB').
C22_ViewTagCaseInsensitive ==
  (recovery # None /\ Returned(recovery)) =>
    \A tag \in ViewTagTexts :
      ToLowerCase(tag) = ToLowerCase(recoveryInput.value.viewTag) =>
        recoverStealthPrivKey(WithViewTag(tag)) = recovery

\* ------------------------------------------------------------------------
\* Properties of the tweak preimage
\* ------------------------------------------------------------------------

\* the shared secret on the sender side: ephemPriv * viewPub
SenderSideSecret ==
  sharedSecretOf(
    multiply(fromHex(SliceFrom(recipient.value.view.publicKey, 2)).value,
             ephemeral.value).value)

\* the preimage the sender hashes into H
SenderSidePreimage ==
  preimageOf(SenderSideSecret, hexToBytes(sender.value.viewTag))

\* the shared secret on the recipient side: viewPriv * ephemPub
RecipientSideSecret ==
  sharedSecretOf(
    multiply(fromHex(SliceFrom(recoveryInput.value.ephemPubKey, 2)).value,
             ScalarOfKey(recoveryInput.value.viewPrivKey)).value)

\* the preimage the recipient hashes into H
RecipientSidePreimage ==
  preimageOf(RecipientSideSecret, hexToBytes(recoveryInput.value.viewTag))

\* s is 32 bytes, the big-endian x-coordinate with its leading zero bytes,
\* and the preimage is 33 bytes: s at offsets 0..31, the tag at offset 32
Framed(secret, preimage, x, tagByte) ==
  /\ Len(secret) = 32
  /\ \A i \in 1..31 : secret[i] = 0
  /\ secret[32] = x
  /\ Len(preimage) = 33
  /\ SubSeq(preimage, 1, 32) = secret
  /\ preimage[33] = tagByte

\* C23: on both the sender and the recipient side, for every shared point
\* (their x-coordinates have leading zero bytes) the shared secret s is
\* exactly 32 bytes and the tweak preimage is exactly 33 bytes, s at
\* offsets 0..31 and the 1-byte view tag at offset 32; the two sides hash
\* the identical preimage for a matching announcement.
C23_ConstantPreimageFraming ==
  /\ (sender # None /\ Returned(sender)) =>
       Framed(SenderSideSecret, SenderSidePreimage,
              DoubleAndAdd(BASE, (ScalarOfKey(recipient.value.view.privateKey)
                                  * ephemeral.value) % CurveN).x,
              HexToNum(SliceFrom(sender.value.viewTag, 2)))
  /\ recovery # None =>
       /\ Framed(RecipientSideSecret, RecipientSidePreimage,
                 DoubleAndAdd(BASE, (ScalarOfKey(recoveryInput.value.viewPrivKey)
                                     * ephemeral.value) % CurveN).x,
                 HexToNum(SliceFrom(recoveryInput.value.viewTag, 2)))
       /\ MatchingRecovery => RecipientSidePreimage = SenderSidePreimage

\* the matching recovery has hashed the 33 bytes the sender hashed
C23_Witness ==
  /\ MatchingRecovery
  /\ Returned(recovery)
  /\ Len(RecipientSidePreimage) = 33
  /\ RecipientSidePreimage = SenderSidePreimage

\* ------------------------------------------------------------------------
\* Several calls of scanAnnouncements over the same list, interleaved
\* record by record
\* ------------------------------------------------------------------------

\* the calls under way
ScanIds == {1, 2}

\* the records delivered besides announcements to the scanning recipient
DeliveredKinds == {"null", "noMetadata"}

\* the log source delivers a record before any call has started
Deliver ==
  /\ Returned(scanner)
  /\ scan = None
  /\ scans = None
  /\ Len(logs) < MaxLogs
  /\ \/ \E ephemPriv \in ScanScalars :
          Announce(getSenderStealthAddress(MetaAddressOf(scanner.value), ephemPriv),
                   "own")
     \/ \E kind \in DeliveredKinds :
          logs' = Append(logs, MalformedLog(kind, Len(logs) + 1))
  /\ UNCHANGED <<scanner, scanConfig, scan, scans>>
  /\ UNCHANGED <<stealthVars, codecVars, reuseVars, utilVars>>

\* the configs of the callers: the scanning recipient, or a recipient with
\* another view key
CallerConfigs(keys) ==
  {[viewPrivKey |-> keys.view.privateKey, spendPrivKey |-> keys.spend.privateKey],
   [viewPrivKey  |-> KeyText((ScalarOfKey(keys.view.privateKey) % (CurveN - 1)) + 1),
    spendPrivKey |-> keys.spend.privateKey]}

\* const matches: ScanMatch[] = [] is shared by the calls
matchesOfCall_Shared(calls, id) == calls[1].matches

\* const matches: ScanMatch[] = []: the array of the call itself
matchesOfCall(calls, id) == calls[id].matches

\* the calls enter scanAnnouncements(logs, config): const matches = []
StartScans ==
  /\ Returned(scanner)
  /\ scans = None
  /\ \E configs \in [ScanIds -> CallerConfigs(scanner.value)] :
       scans' = [id \in ScanIds |->
                   [config |-> configs[id], position |-> 1, matches |-> Return(<<>>)]]
  /\ UNCHANGED scanVars
  /\ UNCHANGED <<stealthVars, codecVars, reuseVars, utilVars>>

\* one call runs one iteration of its for loop
ScanStep(id) ==
  /\ scans # None
  /\ scans[id].position <= Len(logs)
  /\ scans' = [scans EXCEPT
                 ![id].matches  = iteration(matchesOfCall(scans, id),
                                            tryBody(logs[scans[id].position],
                                                    scans[id].config)),
                 ![id].position = @ + 1]
  /\ UNCHANGED scanVars
  /\ UNCHANGED <<stealthVars, codecVars, reuseVars, utilVars>>

NextConcurrent ==
  GenerateScanner \/ Deliver \/ StartScans \/ \E id \in ScanIds : ScanStep(id)

SpecConcurrent == Init /\ [][NextConcurrent]_vars

\* one call of scanAnnouncements over the delivered list, whose result is
\* compared with the calls over the parts of the list
NextSplit == GenerateScanner \/ Deliver \/ Scan

SpecSplit == Init /\ [][NextSplit]_vars

\* ------------------------------------------------------------------------
\* Properties of the scanner across records
\* ------------------------------------------------------------------------

\* the result of scanning logs[from..to] with the config of the last scan
ScanOfRange(from, to) ==
  scanAnnouncements(SubSeq(logs, from, to), scanConfig.value)

\* the scan of the whole list is the scan of a part followed by the scan
\* of the rest
SplitAgrees(first, rest) ==
  /\ Returned(first)
  /\ Returned(rest)
  /\ scan = Return(first.value \o rest.value)

\* C24: the scanner is stateless across records: for every two record
\* lists a and b and every config, scanAnnouncements(a ++ b, config) equals
\* scanAnnouncements(a, config) ++ scanAnnouncements(b, config).
C24_ScanDistributesOverConcatenation ==
  scan # None =>
    \A k \in 0..Len(logs) :
      SplitAgrees(ScanOfRange(1, k), ScanOfRange(k + 1, Len(logs)))

\* a list of two records was scanned whose second record matched after a
\* first record that failed
C24_Witness ==
  /\ scan # None
  /\ Len(logs) = 2
  /\ ScanOfRange(1, 1).value = <<>>
  /\ Len(ScanOfRange(2, 2).value) = 1
  /\ Len(scan.value) = 1

\* neither the ephemeral public key nor the view tag can be read from the
\* record: ephemeralPubKey absent, or metadata absent or empty
ExtractionFails(log) ==
  \/ log.isNull
  \/ ~log.hasArgs
  \/ ~Truthy(log.ephemeralPubKey)
  \/ ~log.metadata.def
  \/ log.metadata.text \in {<<>>, <<"0", "x">>}

\* C25: a record from which the ephemeral public key or the view tag
\* cannot be extracted never yields a match in scanAnnouncements, whatever
\* the recipient's keys.
C25_ExtractionFailureIsSkip ==
  (scan # None /\ Returned(scan)) =>
    \A j \in 1..Len(logs) : ExtractionFails(logs[j]) => MatchesOf(j) = {}

C27_InterleavedScanEqualsScanAlone ==
  scans # None =>
    \A id \in ScanIds :
      scans[id].matches =
        scanAnnouncements(SubSeq(logs, 1, scans[id].position - 1), scans[id].config)

\* two calls with different configs have finished a list of two records
\* after the second call ran between the iterations of the first, and the
\* first found a match the second did not
C27_Witness ==
  /\ scans # None
  /\ Len(logs) = 2
  /\ scans[1].config # scans[2].config
  /\ scans[1].position = 3
  /\ scans[2].position = 3
  /\ Len(scans[1].matches.value) >= 1
  /\ Len(scans[2].matches.value) < Len(scans[1].matches.value)

\* the last recovery called again with the spend private key d
WithSpendKey(d) ==
  recoverStealthPrivKey([recoveryInput.value EXCEPT !.spendPrivKey = KeyText(d)])

\* the last recovery was called with a spend key that is a valid scalar
SpendKeyValid ==
  /\ recovery # None
  /\ IsScalarText(recoveryInput.value.spendPrivKey)

\* two calls that differ only in a valid spend key both fail with
\* ViewTagMismatchError, carrying the same tags, or neither does
SameTagVerdict(d) ==
  IF recovery.kind = "ViewTagMismatchError" THEN WithSpendKey(d) = recovery
  ELSE WithSpendKey(d).kind # "ViewTagMismatchError"

\* C28 as stated: whether recoverStealthPrivKey accepts or rejects an
\* announcement never depends on spendPrivKey: two calls that differ only
\* in spendPrivKey (both valid scalars) both fail with ViewTagMismatchError
\* or both pass the view-tag check, and a correct view key with a wrong
\* spend key returns a key for a different address without any error.
C28_WrongSpendKeyAlwaysReturns ==
  SpendKeyValid =>
    \A d \in PrivateScalars :
      /\ SameTagVerdict(d)
      /\ (Returned(recovery) /\ d # SpendResidue) =>
           /\ Returned(WithSpendKey(d))
           /\ WithSpendKey(d).value.stealthAddress # recovery.value.stealthAddress

\* C28 (amended): the view-tag verdict never depends on spendPrivKey, and
\* where the call returns, the call with another valid spend key d returns
\* the key (d + H) mod n for a different address, unless (d + H) mod n = 0,
\* where it fails with an error other than ViewTagMismatchError.
C28_WrongSpendKeyReturnsUnlessZeroKey ==
  SpendKeyValid =>
    \A d \in PrivateScalars :
      /\ SameTagVerdict(d)
      /\ (Returned(recovery) /\ d # SpendResidue) =>
           IF (d + RecoveryTweak) % CurveN = 0
           THEN /\ ~Returned(WithSpendKey(d))
                /\ WithSpendKey(d).kind # "ViewTagMismatchError"
           ELSE /\ Returned(WithSpendKey(d))
                /\ WithSpendKey(d).value.stealthPrivKey =
                     KeyText((d + RecoveryTweak) % CurveN)
                /\ WithSpendKey(d).value.stealthPrivKey # recovery.value.stealthPrivKey
                /\ WithSpendKey(d).value.stealthAddress # recovery.value.stealthAddress

\* a recovery with a valid spend key has returned, the call with one other
\* valid spend key returns another address and the call with a third one
\* fails on the zero key
C28_Witness ==
  /\ SpendKeyValid
  /\ Returned(recovery)
  /\ \E d \in PrivateScalars :
       /\ d # SpendResidue
       /\ Returned(WithSpendKey(d))
       /\ WithSpendKey(d).value.stealthAddress # recovery.value.stealthAddress
  /\ \E d \in PrivateScalars :
       /\ (d + RecoveryTweak) % CurveN = 0
       /\ ~Returned(WithSpendKey(d))

\* C29: validator and parser agree: for every string v,
\* isValidMetaAddress(v) is true if and only if parseMetaAddress(v) returns
\* without raising.
C29_ValidatorAgreesWithParser ==
  parsed # None =>
    (isValidMetaAddress(parseInput.value) <=> Returned(parsed))

\* a text with the prefix '0X' was parsed and is valid
C29_Witness ==
  /\ parsed # None
  /\ Returned(parsed)
  /\ parseInput.value[2] = "X"
  /\ isValidMetaAddress(parseInput.value)

====
